---- MODULE Spec2Model ----
(***************************************************************************)
(* Model of the YP Site Info Generator: the Streamlit Generate handler of   *)
(* app.py and the generate_dxf pipeline of dxf_generator.py.                *)
(*                                                                          *)
(* Coordinates are integer feet in the working frame EPSG:2276.  Provider   *)
(* data (OSM edges, FEMA shapefile rows) arrives in a source frame of       *)
(* 10-ft cells and is brought to the working frame by ToCrs2276.  Text      *)
(* heights are integers in thousandths of an inch.  Scale factors handed    *)
(* to generate_dxf directly are whole numbers; the factors of the app's     *)
(* county table are kept in units of 1e-9.  File names and paths are        *)
(* sequences of string tokens, so that f-string formatting and              *)
(* os.path.join are concatenations.                                         *)
(***************************************************************************)
EXTENDS Integers, Sequences, FiniteSets, TLC

VARIABLES
    caller,        \* "app": the Generate button; "direct": a call of generate_dxf
    input,         \* app: the widget values; direct: the keyword arguments
    env,           \* what the outside world answers: OSM, FEMA archive, file system
    pc,            \* position inside the handler / generate_dxf
    args,          \* generate_dxf's bound parameters
    dxf_file,      \* app.py:85
    ui,            \* the Streamlit messages and widgets emitted by the handler
    queries,       \* the network_type of every road-network query made
    roads_status,  \* "ok" or "failed" (the except branch of lines 49-51)
    roads,         \* the roads GeoDataFrame
    fema,          \* the fema GeoDataFrame, or None
    layers,        \* doc.layers
    styles,        \* doc.styles
    msp,           \* the modelspace: the entities in insertion order
    nad_suffix,    \* the parameter nad_suffix, rebound at lines 158/160
    scale_passes,  \* how many times the loop of lines 155-157 has run
    out_path,      \* line 173
    files          \* paths written by doc.saveas

vars == <<caller, input, env, pc, args, dxf_file, ui, queries, roads_status,
          roads, fema, layers, styles, msp, nad_suffix, scale_passes,
          out_path, files>>

\* Longest road-provider response and longest FEMA shapefile considered.
MaxEdges == 3
MaxFema == 2

\* Python's None, and the empty string: both are falsy.
None == <<>>

----------------------------------------------------------------------------
(* Sequence helpers *)

Range(s) == {s[i] : i \in 1..Len(s)}

RECURSIVE Concat(_)
Concat(ss) == IF ss = <<>> THEN <<>> ELSE Head(ss) \o Concat(Tail(ss))

SeqsUpTo(S, n) == UNION {[1..k -> S] : k \in 0..n}

----------------------------------------------------------------------------
(* app.py: the form *)

scale_options == <<1, 10, 20, 30, 40, 50, 60, 80, 100, 150, 200, 500>>

county_options == <<"Collin", "Dallas", "Tarrant", "Denton", "Grayson",
                    "Rockwall", "Hunt", "Cooke", "Fannin">>

\* Units of 1e-9.
county_scale_factors ==
    [c \in Range(county_options) |->
        CASE c = "Collin"   -> 1000152710
          [] c = "Dallas"   -> 1000130050
          [] c = "Tarrant"  -> 1000121980
          [] c = "Denton"   -> 1000149320
          [] c = "Grayson"  -> 1000160220
          [] c = "Rockwall" -> 1000141800
          [] c = "Hunt"     -> 1000168950
          [] c = "Cooke"    -> 1000174000
          [] c = "Fannin"   -> 1000165000]

\* str() of a drawing scale inside an f-string.
FormatInt(n) ==
    CASE n = 1 -> "1"     [] n = 10 -> "10"   [] n = 20 -> "20"
      [] n = 30 -> "30"   [] n = 40 -> "40"   [] n = 50 -> "50"
      [] n = 60 -> "60"   [] n = 80 -> "80"   [] n = 100 -> "100"
      [] n = 150 -> "150" [] n = 200 -> "200" [] n = 500 -> "500"

\* The radio "Scale to Surface?" and lines 64-71.
CoordBasis(apply_surface) == IF apply_surface = "Yes (Surface)" THEN "Surface" ELSE "Grid"

AppScaleFactor(apply_surface, county) ==
    IF apply_surface = "Yes (Surface)" THEN county_scale_factors[county] ELSE 1000000000

AppNadSuffix(apply_surface) == IF apply_surface = "Yes (Surface)" THEN "N83S" ELSE "N83G"

\* The f-string of app.py:85 and of dxf_generator.py:172.
FileName(project_name, county_name, drawing_scale, suffix) ==
    <<project_name, "_", county_name, "_VicinityMap_1in",
      FormatInt(drawing_scale), "ft_", suffix, ".dxf">>

\* The keyword arguments of the call at app.py:88-101.
AppKwargs(w, file) ==
    [output_path      |-> file,
     project_name     |-> w.project_name,
     northing         |-> w.northing,
     easting          |-> w.easting,
     drawing_scale    |-> w.drawing_scale,
     text_plot_height |-> w.text_plot_height,
     font_choice      |-> w.font_choice,
     buffer_miles     |-> w.buffer_miles,
     county_name      |-> w.county_name,
     coord_basis      |-> CoordBasis(w.apply_surface),
     scale_factor     |-> AppScaleFactor(w.apply_surface, w.county_name),
     nad_suffix       |-> AppNadSuffix(w.apply_surface)]

\* The parameters of generate_dxf, none with a default.
GenerateDxfParams ==
    {"output_path", "project_name", "northing", "easting", "drawing_scale",
     "text_plot_height", "font_choice", "buffer_miles", "scale_factor",
     "county_name", "use_surface_scaling", "nad_suffix"}

\* Python binds a keyword call when every keyword names a parameter and
\* every parameter without a default is given; otherwise TypeError.
CallBinds(kwargs) ==
    /\ DOMAIN kwargs \subseteq GenerateDxfParams
    /\ GenerateDxfParams \subseteq DOMAIN kwargs

----------------------------------------------------------------------------
(* dxf_generator.py: geometry *)

\* to_crs(CRS_NAD83): source cells of 10 ft to EPSG:2276 feet.
ToCrs2276(p) == <<p[1] * 10 + 2400000, p[2] * 10 + 6900000>>

ToCrsLine(pts) == [i \in 1..Len(pts) |-> ToCrs2276(pts[i])]

BufferFeet(buffer_miles) == buffer_miles * 5280

\* center.buffer(BUFFER_FEET): the disc about the anchor; empty for a
\* radius that is not positive.
Aoi(a) == [e |-> a.easting, n |-> a.northing, r |-> BufferFeet(a.buffer_miles)]

Inside(p, aoi) ==
    /\ aoi.r > 0
    /\ (p[1] - aoi.e) * (p[1] - aoi.e) + (p[2] - aoi.n) * (p[2] - aoi.n) <= aoi.r * aoi.r

\* poly.exterior.coords of the buffer, at one segment per quadrant:
\* shapely starts east of the centre and runs clockwise, closing the ring.
BoundaryCoords(aoi) ==
    IF aoi.r > 0
    THEN << <<aoi.e + aoi.r, aoi.n>>, <<aoi.e, aoi.n - aoi.r>>,
            <<aoi.e - aoi.r, aoi.n>>, <<aoi.e, aoi.n + aoi.r>>,
            <<aoi.e + aoi.r, aoi.n>> >>
    ELSE <<>>

\* gpd.clip of one line: the maximal runs of consecutive vertices inside
\* the AOI (edges are given with a vertex wherever they cross its rim).
RECURSIVE ClipRuns(_, _, _, _)
ClipRuns(pts, aoi, cur, acc) ==
    LET flush == IF Len(cur) >= 2 THEN Append(acc, cur) ELSE acc
    IN  IF pts = <<>> THEN flush
        ELSE IF Inside(Head(pts), aoi)
             THEN ClipRuns(Tail(pts), aoi, Append(cur, Head(pts)), acc)
             ELSE ClipRuns(Tail(pts), aoi, <<>>, flush)

ClipLine(pts, aoi) == ClipRuns(pts, aoi, <<>>, <<>>)

----------------------------------------------------------------------------
(* dxf_generator.py lines 41-51: the road network *)

\* An edge's "name" attribute: absent (NaN in the frame), one string, or a
\* list of alias strings.
Missing == [tag |-> "Missing", v |-> <<>>]
Single(s) == [tag |-> "Single", v |-> <<s>>]
Aliases(ss) == [tag |-> "Aliases", v |-> ss]

\* Edges a provider may answer with, in source cells.  MAIN ST comes as two
\* edges meeting end to end; OAK AVE leaves the one-mile AOI and re-enters.
EdgeCatalogue ==
    { [name |-> Single("MAIN ST"),
       pts  |-> << <<6560, 6328>>, <<6660, 6328>>, <<6760, 6378>> >>],
      [name |-> Single("MAIN ST"),
       pts  |-> << <<6760, 6378>>, <<6860, 6378>> >>],
      [name |-> Single("OAK AVE"),
       pts  |-> << <<6460, 6228>>, <<6560, 6228>>, <<6660, 5628>>,
                   <<6760, 6228>>, <<6960, 6228>>, <<6960, 6128>> >>],
      [name |-> Missing,
       pts  |-> << <<6660, 6428>>, <<6660, 6528>> >>],
      [name |-> Aliases(<<"FM 1", "ELM ST">>),
       pts  |-> << <<6560, 6428>>, <<6460, 6428>> >>] }

\* What ox.graph_from_point answers: an exception (network failure, or no
\* graph node within the distance), or a graph with at least one edge.
OsmFailure == [ok |-> FALSE, edges |-> <<>>]
OsmAnswer(es) == [ok |-> TRUE, edges |-> es]

\* Line 45: edges.to_crs(CRS_NAD83).
EdgesToCrs(es) == [i \in 1..Len(es) |-> [name |-> es[i].name, geom |-> ToCrsLine(es[i].pts)]]

\* Line 46: gpd.clip(edges, buffer_gdf).  A row keeps the parts of its line
\* inside the AOI; a row with nothing inside is dropped.
ClipEdges(es, aoi) ==
    LET clipped == [i \in 1..Len(es) |->
                        [name |-> es[i].name, geom |-> ClipLine(es[i].geom, aoi)]]
    IN  SelectSeq(clipped, LAMBDA r : r.geom # <<>>)

\* Line 47: dropna(subset=["name"]).
DropNa(rows) == SelectSeq(rows, LAMBDA r : r.name.tag # "Missing")

\* Line 47: drop_duplicates(subset="name") keeps the first row of each name.
RECURSIVE DropDuplicates(_, _)
DropDuplicates(rows, seen) ==
    IF rows = <<>> THEN <<>>
    ELSE IF Head(rows).name \in seen
         THEN DropDuplicates(Tail(rows), seen)
         ELSE <<Head(rows)>> \o DropDuplicates(Tail(rows), seen \cup {Head(rows).name})

RoadsFailed(q) == [status |-> "failed", roads |-> <<>>, queries |-> q]

\* Lines 41-51.  The frame has a "name" column only when some edge of the
\* graph carries a name (else dropna raises KeyError); drop_duplicates
\* hashes the names, and raises TypeError on a list.  Every exception lands
\* in the except branch, which leaves an empty frame.
LoadRoads(a, osm) ==
    LET q       == <<"drive">>
        edges   == EdgesToCrs(osm.edges)
        clipped == ClipEdges(edges, Aoi(a))
        named   == DropNa(clipped)
    IN  IF ~osm.ok THEN RoadsFailed(q)
        ELSE IF \A i \in 1..Len(edges) : edges[i].name.tag = "Missing" THEN RoadsFailed(q)
        ELSE IF \E i \in 1..Len(named) : named[i].name.tag = "Aliases" THEN RoadsFailed(q)
        ELSE [status  |-> "ok",
              roads   |-> LET kept == DropDuplicates(named, {})
                          IN  [i \in 1..Len(kept) |->
                                  [name |-> kept[i].name.v[1], geom |-> kept[i].geom]],
              queries |-> q]

----------------------------------------------------------------------------
(* dxf_generator.py: the drawing *)

LwPolyline(layer, pts, closed) ==
    [type |-> "LWPOLYLINE", layer |-> layer, points |-> pts, closed |-> closed,
     text |-> "", height |-> 0, insert |-> <<>>]

Text(content, height, layer, at) ==
    [type |-> "TEXT", layer |-> layer, points |-> <<>>, closed |-> FALSE,
     text |-> content, height |-> height, insert |-> at]

\* Lines 93-95.
FontFile(font_choice) ==
    CASE font_choice = "romans"  -> "romans.shx"
      [] font_choice = "simplex" -> "simplex.shx"
      [] OTHER                   -> "txt.shx"

\* str.strip() on the names and zones that occur.
Strip(s) == IF s \in {"", " "} THEN "" ELSE s

\* Line 118: text_plot_height * 0.8, in thousandths of an inch.
RoadLabelHeight(a) == (a.text_plot_height * 8) \div 10

\* Line 142: text_plot_height * 0.7.
ZoneLabelHeight(a) == (a.text_plot_height * 7) \div 10

\* Lines 109-124, one row of roads.
DrawRoad(row, a) ==
    LET name == Strip(row.name)
        geom == row.geom
    IN  IF geom = <<>> \/ name = "" THEN <<>>
        ELSE IF Len(geom) = 1
             THEN LET coords == geom[1]
                      midpt  == coords[(Len(coords) \div 2) + 1]
                  IN  << LwPolyline("ROADS", coords, FALSE),
                         Text(<<name>>, RoadLabelHeight(a), "TEXT", midpt) >>
             ELSE [k \in 1..Len(geom) |-> LwPolyline("ROADS", geom[k], FALSE)]

\* Lines 108-124.
DrawRoads(rs, a) == Concat([i \in 1..Len(rs) |-> DrawRoad(rs[i], a)])

----------------------------------------------------------------------------
(* dxf_generator.py lines 53-78 and 126-148: the FEMA flood data *)

\* Rows a county shapefile may hold, in source cells: a polygon and a
\* two-part multipolygon inside the one-mile AOI, and a polygon outside it.
FemaCatalogue ==
    { [type |-> "Polygon", zone |-> "AE",
       parts |-> << << <<6700, 6400>>, <<6800, 6400>>, <<6800, 6450>>,
                       <<6700, 6450>>, <<6700, 6400>> >> >>],
      [type |-> "MultiPolygon", zone |-> "X",
       parts |-> << << <<6500, 6200>>, <<6540, 6200>>, <<6540, 6240>>,
                       <<6500, 6240>>, <<6500, 6200>> >>,
                    << <<6560, 6200>>, <<6600, 6200>>, <<6600, 6240>>,
                       <<6560, 6240>>, <<6560, 6200>> >> >>],
      [type |-> "Polygon", zone |-> "A",
       parts |-> << << <<7400, 6300>>, <<7500, 6300>>, <<7500, 6350>>,
                       <<7400, 6350>>, <<7400, 6300>> >> >>] }

NoData == [cols |-> {}, rows |-> <<>>]

NoFema == [present |-> FALSE, cols |-> {}, rows |-> <<>>]
Frame(d) == [present |-> TRUE, cols |-> d.cols, rows |-> d.rows]

\* get_fema_zip(county_name): the path of the county's archive, or None
\* when the provider has nothing for the county.
GetFemaZip(county_name, f) ==
    IF f.kind = "no_link" THEN None ELSE <<"fema/", county_name, ".zip">>

\* os.path.exists(fema_zip_path).
PathExists(path, f) == f.kind # "missing_file"

\* Line 70: fema.to_crs(CRS_NAD83).
FemaToCrs(d) ==
    [cols |-> d.cols,
     rows |-> [i \in 1..Len(d.rows) |->
                 [type  |-> d.rows[i].type, zone |-> d.rows[i].zone,
                  parts |-> [k \in 1..Len(d.rows[i].parts) |->
                                ToCrsLine(d.rows[i].parts[k])]]]]

\* Line 71: gpd.clip(fema, buffer_gdf), for rows that lie wholly inside or
\* wholly outside the AOI.
FemaClip(d, aoi) ==
    [cols |-> d.cols,
     rows |-> SelectSeq(d.rows, LAMBDA r :
                 \A k \in 1..Len(r.parts) : \A j \in 1..Len(r.parts[k]) :
                     Inside(r.parts[k][j], aoi))]

\* Lines 56-78.  fema is assigned after each of read_file, to_crs and clip,
\* so an exception in a later call leaves the value of the earlier one.
LoadFema(a, f) ==
    LET fema_zip_path == GetFemaZip(a.county_name, f)
    IN  IF fema_zip_path = None \/ ~PathExists(fema_zip_path, f) THEN NoFema
        ELSE CASE f.kind = "extract_err" -> NoFema
               [] f.kind = "no_shp"      -> NoFema
               [] f.kind = "read_err"    -> NoFema
               [] f.kind = "crs_err"     -> Frame(f.data)
               [] f.kind = "clip_err"    -> Frame(FemaToCrs(f.data))
               [] OTHER                  -> Frame(FemaClip(FemaToCrs(f.data), Aoi(a)))

\* Line 130.
ZoneField(cols) ==
    CASE "FLD_ZONE" \in cols   -> "FLD_ZONE"
      [] "ZONE_SUBTY" \in cols -> "ZONE_SUBTY"
      [] "ZONE" \in cols       -> "ZONE"
      [] OTHER                 -> ""

\* geom.centroid of a rectangle: the mean of its four corners.
Centroid(ring) ==
    << (ring[1][1] + ring[2][1] + ring[3][1] + ring[4][1]) \div 4,
       (ring[1][2] + ring[2][2] + ring[3][2] + ring[4][2]) \div 4 >>

\* Lines 132-147, one row of fema.
DrawFemaRow(row, zone_field, a) ==
    IF row.parts = <<>> THEN <<>>
    ELSE IF row.type = "Polygon"
         THEN <<LwPolyline("FEMA", row.parts[1], TRUE)>>
              \o (IF zone_field # "" /\ Strip(row.zone) # ""
                  THEN <<Text(<<Strip(row.zone)>>, ZoneLabelHeight(a), "TEXT",
                              Centroid(row.parts[1]))>>
                  ELSE <<>>)
         ELSE [k \in 1..Len(row.parts) |-> LwPolyline("FEMA", row.parts[k], TRUE)]

\* Lines 129-148.
DrawFema(fm, a) ==
    IF fm.present /\ fm.rows # <<>>
    THEN Concat([i \in 1..Len(fm.rows) |-> DrawFemaRow(fm.rows[i], ZoneField(fm.cols), a)])
    ELSE <<>>

----------------------------------------------------------------------------
(* dxf_generator.py lines 150-177: scaling, note, save *)

ScalePointsTwice(pts, scale_factor) ==
    [i \in 1..Len(pts) |->
        <<pts[i][1] * scale_factor * scale_factor, pts[i][2] * scale_factor * scale_factor>>]

\* Line 156.
ScalePoints(pts, scale_factor) ==
    [i \in 1..Len(pts) |-> <<pts[i][1] * scale_factor, pts[i][2] * scale_factor>>]

\* Lines 155-157: every LWPOLYLINE of the modelspace, and nothing else.
ScaleModelspace(m, scale_factor) ==
    [i \in 1..Len(m) |->
        IF m[i].type = "LWPOLYLINE"
        THEN [m[i] EXCEPT !.points = ScalePoints(@, scale_factor)]
        ELSE m[i]]

BasisSuffixGrid(use_surface_scaling) == "N83G"

\* Lines 158 and 160.
BasisSuffix(use_surface_scaling) == IF use_surface_scaling THEN "N83S" ELSE "N83G"

\* Lines 165-167.
InfoNote(a) ==
    Text(<<a.project_name, "\n", a.county_name, " County\nScale 1\"=",
           FormatInt(a.drawing_scale), " ft">>,
         a.text_plot_height, "TEXT",
         <<a.easting, a.northing + (BufferFeet(a.buffer_miles) \div 2)>>)

\* os.path.join(output_path, filename).
PathJoin(dir, name) == IF dir = <<>> THEN name ELSE dir \o <<"/">> \o name

----------------------------------------------------------------------------
(* Inputs *)

OsmAnswers ==
    {OsmFailure} \cup {OsmAnswer(es) : es \in SeqsUpTo(EdgeCatalogue, MaxEdges) \ {<<>>}}

FemaDatasets ==
    {[cols |-> c, rows |-> rs] :
        c \in {{"FLD_ZONE"}, {"OBJECTID"}}, rs \in SeqsUpTo(FemaCatalogue, MaxFema)}

\* How far the archive gets: the provider has no archive, the path is not
\* on disk, extraction raises, the archive holds no .shp, read_file
\* raises, to_crs raises, clip raises, or every call succeeds.
FemaOutcomes ==
    {[kind |-> k, data |-> NoData] :
        k \in {"no_link", "missing_file", "extract_err", "no_shp", "read_err"}}
    \cup {[kind |-> k, data |-> d] : k \in {"crs_err", "clip_err", "ok"}, d \in FemaDatasets}

OnePolygon ==
    [kind |-> "ok",
     data |-> [cols |-> {"FLD_ZONE"},
               rows |-> <<CHOOSE r \in FemaCatalogue : r.zone = "AE">>]]

NoLink == [kind |-> "no_link", data |-> NoData]

OneRoad == OsmAnswer(<<CHOOSE e \in EdgeCatalogue : Len(e.pts) = 3>>)

\* The keyword arguments of a direct call of generate_dxf.
Kwargs(pn, county, scale, tph, miles, sf, use, suffix, dir) ==
    [output_path         |-> dir,
     project_name        |-> pn,
     northing            |-> 6963280,
     easting             |-> 2466600,
     drawing_scale       |-> scale,
     text_plot_height    |-> tph,
     font_choice         |-> "simplex",
     buffer_miles        |-> miles,
     scale_factor        |-> sf,
     county_name         |-> county,
     use_surface_scaling |-> use,
     nad_suffix          |-> suffix]

Env(osm, f, ok) == [osm |-> osm, fema |-> f, dir_ok |-> ok]

\* Calls that vary the road network.
RoadRuns ==
    {[caller |-> "direct",
      input  |-> Kwargs("P1", "Collin", 100, 80, miles, sf, use, "N83G", <<>>),
      env    |-> Env(osm, f, TRUE)] :
        miles \in {0, 1}, sf \in {1, 2}, use \in BOOLEAN,
        osm \in OsmAnswers, f \in {NoLink, OnePolygon}}

\* Calls that vary the FEMA archive.
FemaRuns ==
    {[caller |-> "direct",
      input  |-> Kwargs("P1", "Collin", 100, 80, miles, 2, use, "N83S", <<"out">>),
      env    |-> Env(osm, f, TRUE)] :
        miles \in {0, 1}, use \in BOOLEAN,
        osm \in {OsmFailure, OneRoad}, f \in FemaOutcomes}

\* An output_path: the working directory, a directory, or the file name
\* the app passes as output_path (app.py:85,89).
OutputDir(where, pn, county, scale, suffix) ==
    CASE where = "cwd" -> <<>>
      [] where = "out" -> <<"out">>
      [] OTHER         -> FileName(pn, county, scale, suffix)

\* Calls that vary the naming, the sizes and the output directory.
NamingRuns ==
    {[caller |-> "direct",
      input  |-> Kwargs(pn, county, scale, tph, miles, 2, use, suffix,
                        OutputDir(where, pn, county, scale, suffix)),
      env    |-> Env(OneRoad, NoLink, ok)] :
        pn \in {"", "P1"}, county \in {"Collin", "Hunt"},
        scale \in Range(scale_options), tph \in {80, 100}, miles \in {-1, 0, 1},
        use \in BOOLEAN, suffix \in {"N83G", "N83S"},
        where \in {"cwd", "out", "dxf_file"},
        ok \in BOOLEAN}

\* The form of app.py as the user may leave it before pressing Generate.
AppRuns ==
    {[caller |-> "app",
      input  |-> [project_name |-> pn, northing |-> 6963281, easting |-> 2466606,
                  drawing_scale |-> scale, text_plot_height |-> 80,
                  font_choice |-> "simplex", buffer_miles |-> miles,
                  county_name |-> county, apply_surface |-> radio],
      env    |-> Env(OneRoad, NoLink, TRUE)] :
        pn \in {"", "P1"}, scale \in Range(scale_options), miles \in {0, 3},
        county \in Range(county_options),
        radio \in {"No (Grid)", "Yes (Surface)"}}

Runs == RoadRuns \cup FemaRuns \cup NamingRuns \cup AppRuns

----------------------------------------------------------------------------
(* The state machine *)

Init ==
    /\ \E r \in Runs : caller = r.caller /\ input = r.input /\ env = r.env
    /\ pc = "idle"
    /\ args = None
    /\ dxf_file = <<>>
    /\ ui = <<>>
    /\ queries = <<>>
    /\ roads_status = "unset"
    /\ roads = <<>>
    /\ fema = NoFema
    /\ layers = {}
    /\ styles = {}
    /\ msp = <<>>
    /\ nad_suffix = ""
    /\ scale_passes = 0
    /\ out_path = <<>>
    /\ files = {}

Pipeline == <<queries, roads_status, roads, fema, layers, styles, msp,
              nad_suffix, scale_passes, out_path, files>>

\* app.py lines 79-101: the Generate button, up to the call.  The call's
\* TypeError is caught at line 114.
AppGenerate ==
    /\ caller = "app" /\ pc = "idle"
    /\ IF input.project_name = ""
       THEN /\ ui' = <<"error: enter a project name">>
            /\ pc' = "app_done"
            /\ UNCHANGED <<args, dxf_file>>
       ELSE LET file   == FileName(input.project_name, input.county_name,
                                   input.drawing_scale, AppNadSuffix(input.apply_surface))
                kwargs == AppKwargs(input, file)
            IN  /\ dxf_file' = file
                /\ IF CallBinds(kwargs)
                   THEN /\ args' = kwargs
                        /\ ui' = <<"info: generating">>
                        /\ pc' = "load_roads"
                   ELSE /\ ui' = <<"info: generating", "error: exception">>
                        /\ pc' = "app_done"
                        /\ UNCHANGED args
    /\ UNCHANGED <<caller, input, env>>
    /\ UNCHANGED Pipeline

\* A call of generate_dxf with its own parameter names (lines 14-36).
DirectCall ==
    /\ caller = "direct" /\ pc = "idle"
    /\ IF CallBinds(input)
       THEN args' = input /\ pc' = "load_roads" /\ nad_suffix' = input.nad_suffix
       ELSE pc' = "raised" /\ UNCHANGED <<args, nad_suffix>>
    /\ UNCHANGED <<caller, input, env, dxf_file, ui, queries, roads_status, roads,
                   fema, layers, styles, msp, scale_passes, out_path, files>>

\* Lines 41-51.
LoadRoadsStep ==
    /\ pc = "load_roads"
    /\ LET r == LoadRoads(args, env.osm)
       IN  /\ queries' = r.queries
           /\ roads_status' = r.status
           /\ roads' = r.roads
    /\ pc' = "load_fema"
    /\ UNCHANGED <<caller, input, env, args, dxf_file, ui, fema, layers, styles,
                   msp, nad_suffix, scale_passes, out_path, files>>

\* Lines 56-78.
LoadFemaStep ==
    /\ pc = "load_fema"
    /\ fema' = LoadFema(args, env.fema)
    /\ pc' = "create_doc"
    /\ UNCHANGED <<caller, input, env, args, dxf_file, ui, queries, roads_status,
                   roads, layers, styles, msp, nad_suffix, scale_passes,
                   out_path, files>>

\* Lines 83-103: the document, its layers and style, the boundary.
CreateDoc ==
    /\ pc = "create_doc"
    /\ layers' = {"BOUNDARY", "TEXT", "ROADS", "FEMA"}
    /\ styles' = {[name |-> "YPA_FONT", font |-> FontFile(args.font_choice)]}
    /\ msp' = <<LwPolyline("BOUNDARY", BoundaryCoords(Aoi(args)), TRUE)>>
    /\ pc' = "draw_roads"
    /\ UNCHANGED <<caller, input, env, args, dxf_file, ui, queries, roads_status,
                   roads, fema, nad_suffix, scale_passes, out_path, files>>

\* Lines 108-124.
DrawRoadsStep ==
    /\ pc = "draw_roads"
    /\ msp' = msp \o DrawRoads(roads, args)
    /\ pc' = "draw_fema"
    /\ UNCHANGED <<caller, input, env, args, dxf_file, ui, queries, roads_status,
                   roads, fema, layers, styles, nad_suffix, scale_passes,
                   out_path, files>>

\* Lines 129-148.
DrawFemaStep ==
    /\ pc = "draw_fema"
    /\ msp' = msp \o DrawFema(fema, args)
    /\ pc' = "scaling"
    /\ UNCHANGED <<caller, input, env, args, dxf_file, ui, queries, roads_status,
                   roads, fema, layers, styles, nad_suffix, scale_passes,
                   out_path, files>>

\* Lines 153-160.
SurfaceScaling ==
    /\ pc = "scaling"
    /\ IF args.use_surface_scaling
       THEN /\ msp' = ScaleModelspace(msp, args.scale_factor)
            /\ scale_passes' = scale_passes + 1
       ELSE UNCHANGED <<msp, scale_passes>>
    /\ nad_suffix' = BasisSuffix(args.use_surface_scaling)
    /\ pc' = "info"
    /\ UNCHANGED <<caller, input, env, args, dxf_file, ui, queries, roads_status,
                   roads, fema, layers, styles, out_path, files>>

\* Lines 165-167.
InfoLabel ==
    /\ pc = "info"
    /\ msp' = Append(msp, InfoNote(args))
    /\ pc' = "save"
    /\ UNCHANGED <<caller, input, env, args, dxf_file, ui, queries, roads_status,
                   roads, fema, layers, styles, nad_suffix, scale_passes,
                   out_path, files>>

\* Lines 172-177, and for the app lines 103-115.  doc.saveas raises when the
\* directory of out_path cannot be written.
Save ==
    /\ pc = "save"
    /\ LET filename == FileName(args.project_name, args.county_name,
                                args.drawing_scale, nad_suffix)
           path     == PathJoin(args.output_path, filename)
           written  == IF env.dir_ok THEN files \cup {path} ELSE files
       IN  /\ out_path' = path
           /\ files' = written
           /\ pc' = IF env.dir_ok THEN "returned" ELSE "raised"
           /\ ui' = IF caller # "app" THEN ui
                    ELSE IF ~env.dir_ok THEN Append(ui, "error: exception")
                    ELSE IF dxf_file \in written
                         THEN ui \o <<"success", "download">>
                         ELSE Append(ui, "success")
    /\ UNCHANGED <<caller, input, env, args, dxf_file, queries, roads_status,
                   roads, fema, layers, styles, msp, nad_suffix, scale_passes>>

Next ==
    \/ AppGenerate
    \/ DirectCall
    \/ LoadRoadsStep
    \/ LoadFemaStep
    \/ CreateDoc
    \/ DrawRoadsStep
    \/ DrawFemaStep
    \/ SurfaceScaling
    \/ InfoLabel
    \/ Save

Spec == Init /\ [][Next]_vars

----------------------------------------------------------------------------
(* Properties *)

Saved == pc = "returned"

RoadsDrawn == pc \in {"draw_fema", "scaling", "info", "save", "returned", "raised"}

OnLayer(m, layer) ==
    SelectSeq(m, LAMBDA e : e.type = "LWPOLYLINE" /\ e.layer = layer)

\* The label of a road is the TEXT entity added right after its polyline.
RoadLabels(m) ==
    {i \in 2..Len(m) : m[i].type = "TEXT" /\ m[i - 1].layer = "ROADS"}

\* The ROADS polylines of the same call under grid basis: lines 41-124 do
\* not read use_surface_scaling, and the grid run skips lines 154-157.
GridRoads == OnLayer(DrawRoads(roads, args), "ROADS")

\* C1: in a saved drawing the ROADS polylines are those of the grid run,
\* each with the same number of points in the same order; under surface
\* basis every vertex is the grid vertex times scale_factor, once; under
\* grid basis every vertex is the grid vertex.
C1_SurfaceIsGridTimesFactor ==
    Saved =>
        LET got == OnLayer(msp, "ROADS")
            f   == IF args.use_surface_scaling THEN args.scale_factor ELSE 1
        IN  /\ Len(got) = Len(GridRoads)
            /\ \A i \in 1..Len(got) :
                /\ Len(got[i].points) = Len(GridRoads[i].points)
                /\ \A j \in 1..Len(got[i].points) :
                      got[i].points[j] = << GridRoads[i].points[j][1] * f,
                                            GridRoads[i].points[j][2] * f >>

\* A saved surface run with a three-point road and a multi-part road.
C1_Witness ==
    /\ Saved
    /\ args.use_surface_scaling /\ args.scale_factor = 2
    /\ Len(OnLayer(msp, "ROADS")) >= 3
    /\ \E i \in 1..Len(msp) : msp[i].layer = "ROADS" /\ Len(msp[i].points) = 3

\* C2: the saved file is named
\* {project name}_{county}_VicinityMap_1in{scale}ft_{suffix}.dxf inside
\* output_path, with suffix N83S exactly when the scaling loop ran in this
\* call and N83G exactly when it did not, whatever nad_suffix was passed.
C2_NameFollowsScaling ==
    Saved =>
        /\ scale_passes \in {0, 1}
        /\ \A j \in 1..Len(msp[1].points) :
              LET f == IF scale_passes > 0 THEN args.scale_factor ELSE 1
              IN  msp[1].points[j] = << BoundaryCoords(Aoi(args))[j][1] * f,
                                       BoundaryCoords(Aoi(args))[j][2] * f >>
        /\ out_path \in files
        /\ out_path = PathJoin(args.output_path,
                        << args.project_name, "_", args.county_name, "_VicinityMap_1in",
                           FormatInt(args.drawing_scale), "ft_",
                           IF scale_passes > 0 THEN "N83S" ELSE "N83G", ".dxf" >>)

\* A saved surface run whose caller passed the grid suffix.
C2_Witness ==
    /\ Saved
    /\ scale_passes = 1
    /\ args.nad_suffix = "N83G"
    /\ out_path[Len(out_path) - 1] = "N83S"

FemaUnavailable == env.fema.kind # "ok"

\* C3: when the floodline provider yields nothing or any step of
\* extraction, read, reprojection or clip fails, the call still saves the
\* drawing (unless the output directory cannot be written), the FEMA layer
\* is registered and no entity lies on it.
C3_FemaFailureLeavesLayerEmpty ==
    (FemaUnavailable /\ pc \in {"returned", "raised"}) =>
        /\ pc = "raised" => ~env.dir_ok
        /\ "FEMA" \in layers
        /\ \A i \in 1..Len(msp) : msp[i].layer # "FEMA"

\* The part of a geometry with the most vertices stands for the longest.
LongestPart(geom) ==
    CHOOSE k \in 1..Len(geom) : \A h \in 1..Len(geom) : Len(geom[k]) >= Len(geom[h])

\* C4: every road drawn on ROADS has exactly one label carrying its name,
\* single line or multi-part; a multi-part road has every part drawn and
\* its label on the longest part.
C4_OneLabelPerRoad ==
    pc = "draw_fema" =>
        \A r \in 1..Len(roads) :
            (roads[r].geom # <<>> /\ Strip(roads[r].name) # "") =>
                LET labels == {i \in RoadLabels(msp) : msp[i].text = <<Strip(roads[r].name)>>}
                IN  /\ \A k \in 1..Len(roads[r].geom) :
                          \E i \in 1..Len(msp) :
                              msp[i].layer = "ROADS" /\ msp[i].points = roads[r].geom[k]
                    /\ Cardinality(labels) = 1
                    /\ \A i \in labels :
                          msp[i].insert \in Range(roads[r].geom[LongestPart(roads[r].geom)])

\* The named edges inside the AOI (line 46), before any row is dropped.
ClippedNamed ==
    SelectSeq(ClipEdges(EdgesToCrs(env.osm.edges), Aoi(args)),
              LAMBDA e : e.name.tag = "Single")

\* C5: after a road assembly that did not fail there is one road per
\* distinct name, and its geometry holds every clipped edge of that name.
C5_EveryEdgeOfANameKept ==
    (pc = "load_fema" /\ roads_status = "ok") =>
        /\ \A i, j \in 1..Len(roads) : roads[i].name = roads[j].name => i = j
        /\ \A e \in Range(ClippedNamed) :
              \E i \in 1..Len(roads) :
                  /\ roads[i].name = e.name.v[1]
                  /\ \A k \in 1..Len(e.geom) :
                        Range(e.geom[k]) \subseteq UNION {Range(part) : part \in Range(roads[i].geom)}

\* C6: road data is given up only after two query modes were tried.
C6_TwoQueryModesBeforeGivingUp ==
    roads_status = "failed" =>
        /\ Len(queries) >= 2
        /\ queries[1] # queries[2]

\* C7: a run with a buffer radius <= 0 or an empty project name never
\* reaches the save step and writes no file.
C7_BadConfigurationNeverSaves ==
    (input.buffer_miles <= 0 \/ input.project_name = "") =>
        /\ pc \notin {"save", "returned"}
        /\ files = {}

\* C8: every road label has height text_plot_height x drawing_scale.
C8_LabelHeightIsPlotHeightTimesScale ==
    RoadsDrawn =>
        \A i \in RoadLabels(msp) : msp[i].height = args.text_plot_height * args.drawing_scale

\* C9: in a surface-basis run every road label of the saved drawing sits
\* on a point of the scaled polyline it annotates.
C9_LabelOnScaledRoad ==
    (Saved /\ args.use_surface_scaling) =>
        \A i \in RoadLabels(msp) : msp[i].insert \in Range(msp[i - 1].points)

====
